---------------------------- MODULE Spec2Model ----------------------------
(***************************************************************************)
(* A model of jsparagus' gen.py (an LL(1) parser generator) and of the     *)
(* token sources of the repository (the Tokens class of gen.py's main and  *)
(* js_parser/lexer.py's JSLexer).                                          *)
(*                                                                         *)
(* A grammar is a Python dict {str: [[symbol]]}.  A dict iterates in       *)
(* insertion order, so a grammar is a record                               *)
(*     [keys |-> sequence of names, prods |-> [name -> Seq(Seq(symbol))]]  *)
(* A symbol is a Python str (a terminal or a nonterminal) or a Reduction   *)
(* namedtuple; both are records of one shape so that they can be compared. *)
(*                                                                         *)
(* A Python function that raises is modelled by an operator that returns   *)
(* the exception next to (or instead of) the result.  Where the code binds *)
(* a local to the result of a call and reads it several times, the model   *)
(* binds it with With(result, LAMBDA local : ...).                         *)
(***************************************************************************)
EXTENDS Integers, Sequences, FiniteSets, TLC

VARIABLES
    grammar,    \* the grammar dict the functions work on (mutated in place)
    goal,       \* the goal nonterminal handed to follow_sets / generate_parser
    pc,         \* which call has been made, and how it ended
    err,        \* the exception the last call raised (NoErr: none)
    ntnames,    \* eliminate_left_recursion: the processing order
    follow,     \* the mapping follow_sets returned
    subsumes_relation, \* follow_sets: the pairs (x, y) visit has recorded
    out,        \* what generate_parser wrote to `out`
    line,       \* main: the line read by input('> ')
    tokens,     \* Tokens.tokens: the texts of the tokens not taken yet
    stack,      \* the generated parser's `stack` of tree fragments
    frames,     \* the generated procedures being run, innermost last
    log,        \* the calls made on the token source
    lexer       \* a JSLexer: src, point, last_point, _next_kind, _next_match

gen_vars == <<grammar, goal, ntnames, follow, subsumes_relation, out>>
run_vars == <<line, tokens, stack, frames, log>>
vars == <<grammar, goal, pc, err, ntnames, follow, subsumes_relation, out, line, tokens, stack, frames, log, lexer>>

---------------------------------------------------------------------------
(* Bounds of the model.                                                    *)

\* Longest production of an enumerated input grammar.
MaxLen == 2
\* Most productions of one nonterminal in an enumerated input grammar.
MaxProds == 2
\* Largest enumerated input grammar: its productions plus their symbols.
MaxSize == 8
\* Longest enumerated line of tokens.
MaxInput == 3

---------------------------------------------------------------------------
(* Symbols.                                                                *)

Str(n) == [k |-> "str", n |-> n, i |-> 0, c |-> 0]
Reduction(tag_name, tag_index, arg_count) ==
    [k |-> "red", n |-> tag_name, i |-> tag_index, c |-> arg_count]

\* The names of the model whose first character is a lowercase letter
\* (element[:1].islower()); gensym only appends "_" to such a name.
LowerBase == {"a", "b", "c", "expr", "term", "prim"}
LowerInitial ==
    LowerBase \cup {n \o "_" : n \in LowerBase} \cup {n \o "__" : n \in LowerBase}

is_nt(element) == element.k = "str" /\ element.n \in LowerInitial
is_terminal(element) == element.k = "str" /\ ~is_nt(element)
is_reduction(element) == element.k = "red"

Range(seq) == {seq[x] : x \in 1..Len(seq)}
Keys(g) == Range(g.keys)

\* Python slices of a list: s[k:] (0-based k) and s[:1].
Tail_from(s, k) == SubSeq(s, k + 1, Len(s))
Head1(s) == IF s = <<>> THEN <<>> ELSE <<s[1]>>

\* A local bound to the result of a call: F applied to the value v.
With(v, F(_)) == F(v)

---------------------------------------------------------------------------
(* Exceptions.                                                             *)

Err(kind, nt, tok) == [kind |-> kind, nt |-> nt, tok |-> tok]
NoErr == Err("none", "", "")

---------------------------------------------------------------------------
(* check(grammar)                                                          *)

\* [symbol for symbol in prod if not is_reduction(symbol)]
RECURSIVE strip_reductions(_)
strip_reductions(prod) ==
    IF prod = <<>> THEN <<>>
    ELSE IF is_reduction(Head(prod)) THEN strip_reductions(Tail(prod))
    ELSE <<Head(prod)>> \o strip_reductions(Tail(prod))

\* The first symbol of prod (in order) that is a nonterminal and not a key of
\* the grammar; 0 when there is none.
first_undefined(g, prod) ==
    LET bad == {x \in 1..Len(prod) : is_nt(prod[x]) /\ prod[x].n \notin Keys(g)}
    IN IF bad = {} THEN 0 ELSE CHOOSE x \in bad : \A y \in bad : x <= y

\* check_nt(nt) with the status dict threaded through: st is
\* [status |-> [key -> "missing" | "False" | "True"], err |-> exception].
RECURSIVE check_nt(_, _, _)
RECURSIVE check_prods(_, _, _, _)

check_nt_revisit_silently(g, nt, st) ==
    IF st.status[nt] # "missing" THEN st
    ELSE With(check_prods(g, nt, 1, [st EXCEPT !.status[nt] = "False"]), LAMBDA r :
             IF r.err # NoErr THEN r ELSE [r EXCEPT !.status[nt] = "True"])

check_nt(g, nt, st) ==
    IF st.status[nt] = "True" THEN st
    ELSE IF st.status[nt] = "False" THEN [st EXCEPT !.err = Err("cycle", nt, "")]
    ELSE With(check_prods(g, nt, 1, [st EXCEPT !.status[nt] = "False"]), LAMBDA r :
             IF r.err # NoErr THEN r ELSE [r EXCEPT !.status[nt] = "True"])

\* One production of the loop `for prod in prods` of check_nt: its checks,
\* then the rest of the loop.
check_prod(g, nt, p, st, prod, u, stripped) ==
    IF u # 0 THEN [st EXCEPT !.err = Err("undefined", prod[u].n, "")]
    ELSE IF Len(stripped) = 0 THEN [st EXCEPT !.err = Err("empty", nt, "")]
    ELSE IF Len(stripped) = 1 /\ is_nt(stripped[1])
         THEN With(check_nt(g, stripped[1].n, st), LAMBDA r :
                  IF r.err # NoErr THEN r ELSE check_prods(g, nt, p + 1, r))
    ELSE check_prods(g, nt, p + 1, st)

\* The loop `for prod in prods` of check_nt, from production number p on.
check_prods(g, nt, p, st) ==
    IF p > Len(g.prods[nt]) THEN st
    ELSE check_prod(g, nt, p, st, g.prods[nt][p],
                    first_undefined(g, g.prods[nt][p]),
                    strip_reductions(g.prods[nt][p]))

\* The loop `for nt in grammar: check_nt(nt)`, from key number x on.
RECURSIVE check_keys(_, _, _)
check_keys(g, x, st) ==
    IF x > Len(g.keys) \/ st.err # NoErr THEN st
    ELSE check_keys(g, x + 1, check_nt(g, g.keys[x], st))

\* check(grammar): the exception it raises, NoErr when it returns.
check(g) ==
    check_keys(g, 1, [status |-> [n \in Keys(g) |-> "missing"], err |-> NoErr]).err

---------------------------------------------------------------------------
(* eliminate_left_recursion(grammar)                                       *)

\* gensym(grammar, nt)
RECURSIVE gensym(_, _)
gensym(g, nt) == IF nt \in Keys(g) THEN gensym(g, nt \o "_") ELSE nt

\* quasisort_nts: visit(nt) with the lists `out` and `stack` threaded through.
RECURSIVE visit(_, _, _)
RECURSIVE visit_prods(_, _, _, _)

visit(g, nt, st) ==
    IF nt \in Range(st.out) THEN st
    ELSE With(visit_prods(g, nt, 1, [st EXCEPT !.stack = Append(@, nt)]), LAMBDA r :
             [out |-> Append(r.out, nt),
              stack |-> SubSeq(r.stack, 1, Len(r.stack) - 1)])

\* The loop `for r in grammar[nt]` of visit, from production number p on.
visit_prods(g, nt, p, st) ==
    IF p > Len(g.prods[nt]) THEN st
    ELSE LET r == g.prods[nt][p]
         IN IF r # <<>> /\ is_nt(r[1]) /\ r[1].n \notin Range(st.stack)
            THEN visit_prods(g, nt, p + 1, visit(g, r[1].n, st))
            ELSE visit_prods(g, nt, p + 1, st)

\* The loop `for nt in grammar: visit(nt)`, from key number x on.
RECURSIVE visit_keys(_, _, _)
visit_keys(g, x, st) ==
    IF x > Len(g.keys) THEN st
    ELSE visit_keys(g, x + 1, visit(g, g.keys[x], st))

\* out.reverse()
Reverse(s) == [x \in 1..Len(s) |-> s[Len(s) + 1 - x]]

quasisort_nts_unreversed(g) ==
    visit_keys(g, 1, [out |-> <<>>, stack |-> <<>>]).out

quasisort_nts(g) ==
    Reverse(visit_keys(g, 1, [out |-> <<>>, stack |-> <<>>]).out)

\* The concatenation of a list of lists.
RECURSIVE Flatten(_)
Flatten(ss) == IF ss = <<>> THEN <<>> ELSE Head(ss) \o Flatten(Tail(ss))

\* grammar[nt] = prods: a new key goes to the end of the dict.
SetProds(g, nt, prods) ==
    [keys |-> IF nt \in Keys(g) THEN g.keys ELSE Append(g.keys, nt),
     prods |-> [n \in Keys(g) \cup {nt} |-> IF n = nt THEN prods ELSE g.prods[n]]]

eliminate_left_calls(g, from_nt, to_nt) ==
    LET starts(r) == Head1(r) = <<Str(to_nt)>>
        others(r) == Head1(r) # <<Str(to_nt)>>
        as == SelectSeq(g.prods[from_nt], starts)
        cs == g.prods[to_nt]
    IN SetProds(g, from_nt,
           SelectSeq(g.prods[from_nt], others)
           \o Flatten([ci \in 1..Len(cs) |->
                          [ai \in 1..Len(as) |-> cs[ci] \o Tail_from(as[ai], 1)]]))

eliminate_immediate_left_recursion_skipped(g, nt) == g

eliminate_immediate_left_recursion(g, nt) ==
    LET rules == g.prods[nt]
        rec(r) == Head1(r) = <<Str(nt)>>
        nonrec(r) == Head1(r) # <<Str(nt)>>
        epilogue == gensym(g, nt)
        recs == SelectSeq(rules, rec)
        rest == SelectSeq(rules, nonrec)
    IN IF recs = <<>> THEN g
       ELSE SetProds(SetProds(g, epilogue,
                         <<<<>>>> \o [x \in 1..Len(recs) |->
                                         Tail_from(recs[x], 1) \o <<Str(epilogue)>>]),
                     nt, [x \in 1..Len(rest) |-> rest[x] \o <<Str(epilogue)>>])

\* The loop `for j, jname in enumerate(ntnames[:i])`, from j on (1-based).
RECURSIVE eliminate_inner(_, _, _, _)
eliminate_inner(g, names, i, j) ==
    IF j >= i THEN g
    ELSE eliminate_inner(eliminate_left_calls(g, names[i], names[j]), names, i, j + 1)

\* The loop `for i, iname in enumerate(ntnames)`, from i on (1-based).
RECURSIVE eliminate_outer(_, _, _)
eliminate_outer(g, names, i) ==
    IF i > Len(names) THEN g
    ELSE eliminate_outer(
             eliminate_immediate_left_recursion(eliminate_inner(g, names, i, 1), names[i]),
             names, i + 1)

\* The grammar as eliminate_left_recursion(grammar) leaves it.
eliminate_left_recursion(g) == eliminate_outer(g, quasisort_nts(g), 1)

---------------------------------------------------------------------------
(* start, seq_start                                                        *)

EMPTY == "(empty)"
END == "($)"

\* What a call of start or seq_start gives: the set it returns, or the
\* exception it raises (e = "" when it returns).
Returns(s) == [e |-> "", s |-> s]
Raises(e) == [e |-> e, s |-> {}]

\* start(grammar, symbol) and the loop of seq_start.  `path` holds the
\* nonterminals whose start() call is on the Python stack: start is a pure
\* function, so a call of start(nt) made while start(nt) is running repeats
\* itself until the interpreter raises RecursionError.  grammar[symbol] of a
\* missing key raises KeyError, and set.union(*()) of a nonterminal without
\* productions raises TypeError.
RECURSIVE start(_, _, _)
RECURSIVE start_prods(_, _, _, _, _)
RECURSIVE seq_start_from(_, _, _, _, _)

start(g, symbol, path) ==
    IF is_terminal(symbol) THEN Returns({symbol.n})
    ELSE IF is_reduction(symbol) THEN Returns({EMPTY})
    ELSE IF symbol.n \notin Keys(g) THEN Raises("KeyError")
    ELSE IF symbol.n \in path THEN Raises("RecursionError")
    ELSE start_prods(g, symbol.n, 1, {}, path \cup {symbol.n})

\* The generator (seq_start(grammar, prod) for prod in grammar[symbol]), from
\* production number p on, and the set.union of what it yields.
start_prods(g, nt, p, acc, path) ==
    IF p > Len(g.prods[nt])
    THEN IF Len(g.prods[nt]) = 0 THEN Raises("TypeError") ELSE Returns(acc)
    ELSE With(seq_start_from(g, g.prods[nt][p], 1, {EMPTY}, path), LAMBDA r :
             IF r.e # "" THEN r ELSE start_prods(g, nt, p + 1, acc \cup r.s, path))

\* The loop `for symbol in seq` of seq_start, from symbol number x on.
seq_start_from(g, seq, x, s, path) ==
    IF x > Len(seq) \/ EMPTY \notin s THEN Returns(s)
    ELSE With(start(g, seq[x], path), LAMBDA r :
             IF r.e # "" THEN r
             ELSE seq_start_from(g, seq, x + 1, (s \ {EMPTY}) \cup r.s, path))

seq_start(g, seq) == seq_start_from(g, seq, 1, {EMPTY}, {})

---------------------------------------------------------------------------
(* follow_sets(grammar, goal)                                              *)

\* A set as a list, in some order (Python iterates a set in an order of its
\* own; what follow_sets computes does not depend on it).
RECURSIVE SetToSeq(_)
SetToSeq(S) ==
    IF S = {} THEN <<>>
    ELSE LET x == CHOOSE x \in S : TRUE IN <<x>> \o SetToSeq(S \ {x})

\* collections.defaultdict(set): every name maps to the empty set at first.
EmptyFollow == [n \in LowerInitial |-> {}]

\* visit(nt) of follow_sets with visited, follow and subsumes_relation
\* threaded through: st is [visited, follow, subsumes, e].
RECURSIVE follow_visit(_, _, _)
RECURSIVE follow_visit_prods(_, _, _, _)
RECURSIVE follow_visit_symbols(_, _, _, _, _)

follow_visit(g, nt, st) ==
    IF st.e # "" \/ nt \in st.visited THEN st
    ELSE IF nt \notin Keys(g) THEN [st EXCEPT !.e = "KeyError"]
    ELSE follow_visit_prods(g, nt, 1, [st EXCEPT !.visited = @ \cup {nt}])

\* The loop `for prod in grammar[nt]`, from production number p on.
follow_visit_prods(g, nt, p, st) ==
    IF st.e # "" \/ p > Len(g.prods[nt]) THEN st
    ELSE follow_visit_prods(g, nt, p + 1,
             follow_visit_symbols(g, nt, g.prods[nt][p], 1, st))

follow_after_reversed(symbol, nt, s1, after) ==
    IF s1.e # "" THEN s1
    ELSE IF after.e # "" THEN [s1 EXCEPT !.e = after.e]
    ELSE [s1 EXCEPT !.subsumes = IF EMPTY \in after.s
                                 THEN @ \cup {<<nt, symbol>>} ELSE @,
                    !.follow[symbol] = @ \cup (after.s \ {EMPTY})]

\* The body of the loop for a nonterminal `symbol`, after visit(symbol) has
\* left s1: after = seq_start(grammar, prod[i + 1:]), and what follows.
follow_after(symbol, nt, s1, after) ==
    IF s1.e # "" THEN s1
    ELSE IF after.e # "" THEN [s1 EXCEPT !.e = after.e]
    ELSE [s1 EXCEPT !.subsumes = IF EMPTY \in after.s
                                 THEN @ \cup {<<symbol, nt>>} ELSE @,
                    !.follow[symbol] = @ \cup (after.s \ {EMPTY})]

\* The loop `for i, symbol in enumerate(prod)`, from symbol number x on.
follow_visit_symbols(g, nt, prod, x, st) ==
    IF st.e # "" \/ x > Len(prod) THEN st
    ELSE IF ~is_nt(prod[x]) THEN follow_visit_symbols(g, nt, prod, x + 1, st)
    ELSE follow_visit_symbols(g, nt, prod, x + 1,
             follow_after(prod[x].n, nt, follow_visit(g, prod[x].n, st),
                          seq_start(g, Tail_from(prod, x))))

RECURSIVE subsumes_pass(_, _, _)
RECURSIVE subsumes_pass_done_kept(_, _, _)

subsumes_pass_done_kept(pairs, x, st) ==
    IF x > Len(pairs) THEN st
    ELSE LET target == pairs[x][1]
             source == pairs[x][2]
         IN subsumes_pass_done_kept(pairs, x + 1,
                [st EXCEPT !.follow[target] = @ \cup st.follow[source]])

\* One pass of `for target, source in subsumes_relation`, from pair x on:
\* [follow, done].
subsumes_pass(pairs, x, st) ==
    IF x > Len(pairs) THEN st
    ELSE LET target == pairs[x][1]
             source == pairs[x][2]
         IN IF st.follow[source] \ st.follow[target] # {}
            THEN subsumes_pass(pairs, x + 1,
                     [follow |-> [st.follow EXCEPT ![target] = @ \cup st.follow[source]],
                      done |-> FALSE])
            ELSE subsumes_pass(pairs, x + 1, st)

\* The loop `while not done`.
RECURSIVE subsumes_fixed_point(_, _)
subsumes_fixed_point(pairs, fol) ==
    With(subsumes_pass(pairs, 1, [follow |-> fol, done |-> TRUE]), LAMBDA r :
        IF r.done THEN r.follow ELSE subsumes_fixed_point(pairs, r.follow))

\* follow_sets(grammar, goal): [e |-> exception or "", follow |-> the mapping,
\* subsumes |-> subsumes_relation].
follow_sets(g, goal_nt) ==
    With(follow_visit(g, goal_nt,
             [visited |-> {}, subsumes |-> {}, e |-> "", follow |-> [EmptyFollow EXCEPT ![goal_nt] = {END}]]),
         LAMBDA st :
             IF st.e # "" THEN [e |-> st.e, follow |-> EmptyFollow, subsumes |-> {}]
             ELSE [e |-> "", subsumes |-> st.subsumes,
                   follow |-> subsumes_fixed_point(SetToSeq(st.subsumes), st.follow)])

---------------------------------------------------------------------------
(* check_ambiguity(grammar, goal)                                          *)

\* What check_ambiguity raises: [kind, nt, toks]; the message names
\* list(conflicts)[0], any one member of toks.
Conflict(kind, nt, toks) == [kind |-> kind, nt |-> nt, toks |-> toks]
NoConflict == Conflict("none", "", {""})

RECURSIVE ambiguity_prods(_, _, _, _, _)

ambiguity_prod_unchecked(g, fol, nt, p, start_set, prod_start) ==
    IF prod_start.e # "" THEN Conflict(prod_start.e, "", {""})
    ELSE ambiguity_prods(g, fol, nt, p + 1, start_set \cup prod_start.s)

\* One production of the loop `for prod in prods`: prod_start is
\* seq_start(grammar, prod), start_set the running union `start`.
ambiguity_prod(g, fol, nt, p, start_set, prod_start) ==
    IF prod_start.e # "" THEN Conflict(prod_start.e, "", {""})
    ELSE IF prod_start.s \cap start_set = {}
         THEN ambiguity_prods(g, fol, nt, p + 1, start_set \cup prod_start.s)
    ELSE IF prod_start.s \cap start_set = {EMPTY} THEN Conflict("ambiguous", nt, {""})
    ELSE Conflict("unsupported_first", nt, (prod_start.s \cap start_set) \ {EMPTY})

\* The loop `for prod in prods`, from production number p on, and the
\* comparison with follow[nt] after it.
ambiguity_prods(g, fol, nt, p, start_set) ==
    IF p > Len(g.prods[nt])
    THEN IF EMPTY \in start_set /\ start_set \cap fol[nt] # {}
         THEN Conflict("unsupported_follow", nt, start_set \cap fol[nt])
         ELSE NoConflict
    ELSE ambiguity_prod(g, fol, nt, p, start_set, seq_start(g, g.prods[nt][p]))

\* The loop `for nt, prods in grammar.items()`, from key number x on.
RECURSIVE ambiguity_keys(_, _, _)
ambiguity_keys(g, fol, x) ==
    IF x > Len(g.keys) THEN NoConflict
    ELSE With(ambiguity_prods(g, fol, g.keys[x], 1, {}), LAMBDA r :
             IF r # NoConflict THEN r ELSE ambiguity_keys(g, fol, x + 1))

check_ambiguity(g, goal_nt) ==
    With(follow_sets(g, goal_nt), LAMBDA f :
        IF f.e # "" THEN Conflict(f.e, "", {""}) ELSE ambiguity_keys(g, f.follow, 1))

---------------------------------------------------------------------------
(* generate_parser(out, grammar, goal)                                     *)

augment_from_one(g) ==
    [keys |-> g.keys,
     prods |-> [nt \in Keys(g) |->
                   [p \in 1..Len(g.prods[nt]) |->
                       g.prods[nt][p]
                       \o <<Reduction(nt, p, Len(g.prods[nt][p]))>>]]]

\* {nt: [prod + [Reduction(nt, i, len(prod))] for i, prod in enumerate(productions)]
\*  for nt, productions in grammar.items()}
augment(g) ==
    [keys |-> g.keys,
     prods |-> [nt \in Keys(g) |->
                   [p \in 1..Len(g.prods[nt]) |->
                       g.prods[nt][p]
                       \o <<Reduction(nt, p - 1, Len(g.prods[nt][p]))>>]]]

\* What is written to `out`, block by block:
\*   "def"   def parse_<nt>(src, stack): token = src.peek()
\*   "alt"   if/elif token == t / token in (...): and the actions of `body`
\*   "else"  else: raise ValueError("expected <nt>, got {!r}".format(token))
\*   "entry" def parse(src): ...
Block(op, nt, guard, body) == [op |-> op, nt |-> nt, guard |-> guard, body |-> body]

\* empty_production = None
None == -1

RECURSIVE emit_rules(_, _, _, _, _, _)

\* One rule of the loop `for i, rule in enumerate(rules)`: start_set is
\* seq_start(grammar, rule).  The result is [out, e, toks]: what has been
\* written, and the exception raised ("" for none).
emit_rule(g, nt, p, seen, empty_production, written, rule, start_set) ==
    IF start_set.e # "" THEN [out |-> written, e |-> start_set.e, toks |-> {""}]
    ELSE IF start_set.s \cap seen # {}
         THEN [out |-> written, e |-> "ambiguous_tokens", toks |-> start_set.s \cap seen]
    ELSE IF seen \cup start_set.s = {EMPTY}
         THEN IF empty_production # None
              THEN [out |-> written, e |-> "AssertionError", toks |-> {""}]
              ELSE emit_rules(g, nt, p + 1, seen \cup start_set.s, p - 1, written)
    ELSE emit_rules(g, nt, p + 1, seen \cup start_set.s, empty_production,
                    Append(written, Block("alt", nt, start_set.s, rule)))

\* The loop `for i, rule in enumerate(rules)`, from rule number p on, and
\* the `else:` written after it.
emit_rules(g, nt, p, seen, empty_production, written) ==
    IF p > Len(g.prods[nt])
    THEN [out |-> IF empty_production = None
                  THEN Append(written, Block("else", nt, {}, <<>>))
                  ELSE written,
          e |-> "", toks |-> {""}]
    ELSE emit_rule(g, nt, p, seen, empty_production, written,
                   g.prods[nt][p], seq_start(g, g.prods[nt][p]))

\* The loop `for nt, rules in grammar.items()`, from key number x on.
RECURSIVE emit_keys(_, _, _)
emit_keys(g, x, written) ==
    IF x > Len(g.keys) THEN [out |-> written, e |-> "", toks |-> {""}]
    ELSE With(emit_rules(g, g.keys[x], 1, {}, None,
                         Append(written, Block("def", g.keys[x], {}, <<>>))),
              LAMBDA r : IF r.e # "" THEN r ELSE emit_keys(g, x + 1, r.out))

\* generate_parser: the local grammar as the call leaves it, the exception it
\* raises ([kind, nt, toks], NoConflict for none) and what it has written.
generate_parser(g, goal_nt) ==
    With(augment(g), LAMBDA g1 :
    With(check(g1), LAMBDA e1 :
      IF e1 # NoErr
      THEN [grammar |-> g1, ntnames |-> <<>>, out |-> <<>>,
            err |-> Conflict(e1.kind, e1.nt, {""})]
      ELSE
    With(quasisort_nts(g1), LAMBDA names :
    With(eliminate_left_recursion(g1), LAMBDA g2 :
    With(check_ambiguity(g2, goal_nt), LAMBDA e2 :
      IF e2 # NoConflict
      THEN [grammar |-> g2, ntnames |-> names, out |-> <<>>, err |-> e2]
      ELSE
    With(emit_keys(g2, 1, <<>>), LAMBDA em :
      IF em.e # ""
      THEN [grammar |-> g2, ntnames |-> names, out |-> em.out,
            err |-> Conflict(em.e, "", em.toks)]
      ELSE [grammar |-> g2, ntnames |-> names, err |-> NoConflict,
            out |-> Append(em.out, Block("entry", goal_nt, {}, <<>>))]))))))

---------------------------------------------------------------------------
(* The Tokens class of main()                                              *)

\* peek() at the end of input, and take(None)
NoToken == "None"

\* A call on a token source: the method, the kind peek returned or take was
\* given, whether the call returned (rather than raised), the token returned.
Event(op, kind, ok, token) == [op |-> op, kind |-> kind, ok |-> ok, token |-> token]

\* How peek() classifies the text of a token: str.isdigit(), str.isalpha(),
\* `next in '+-*/()'`; any other text raises ValueError.
TokenKind(text) ==
    CASE text \in {"1", "2"} -> "NUM"
      [] text \in {"x", "y"} -> "VAR"
      [] text \in {"+", "-", "*", "/", "(", ")"} -> text
      [] OTHER -> "ValueError"

\* Tokens.peek(): the kind of the next token, NoToken at the end of input,
\* "ValueError" when it raises.
Tokens_peek(toks) == IF Len(toks) = 0 THEN NoToken ELSE TokenKind(Head(toks))

\* Tokens.take(k): [e |-> the exception raised ("" for none),
\* tokens |-> self.tokens afterwards, token |-> the token returned].
Tokens_take(toks, k) ==
    IF k = NoToken
    THEN [e |-> IF toks # <<>> THEN "expected_end_of_input" ELSE "",
          tokens |-> toks, token |-> NoToken]
    ELSE IF Tokens_peek(toks) = "ValueError"
         THEN [e |-> "ValueError", tokens |-> toks, token |-> NoToken]
    ELSE IF Tokens_peek(toks) # k
         THEN [e |-> "AssertionError", tokens |-> toks, token |-> NoToken]
    ELSE [e |-> "", tokens |-> Tail(toks), token |-> Head(toks)]

---------------------------------------------------------------------------
(* JSLexer                                                                 *)

\* The characters of the sources lexed: a digit, a letter, a punctuator
\* character and a blank.  A source is the list of its characters, and so is
\* a token; positions count from 0, as in Python.
Chars == {"1", "x", "+", " "}

\* A match object of TOKEN_RE: start(1), end() and group(1).
Match(start1, end, group1) ==
    [k |-> "match", start1 |-> start1, end |-> end, group1 |-> group1]

\* self._next_match before peek has ever set it (__init__ does not), and None.
Unset == [k |-> "unset", start1 |-> 0, end |-> 0, group1 |-> <<>>]
NoMatch == [k |-> "None", start1 |-> 0, end |-> 0, group1 |-> <<>>]

\* The end of the longest run of characters of `set` in src from position q.
RECURSIVE RunEnd(_, _, _)
RunEnd(src, q, set) ==
    IF q < Len(src) /\ src[q + 1] \in set THEN RunEnd(src, q + 1, set) ELSE q

\* The end of group 1 of TOKEN_RE when it starts at position q: an
\* IdentifierName or a NumericLiteral (a run of letters and digits), the
\* longest punctuator (++ before +), or the empty string at the end.
TokenEnd(src, q) ==
    IF q >= Len(src) THEN q
    ELSE IF src[q + 1] \in {"x", "1"} THEN RunEnd(src, q, {"x", "1"})
    ELSE IF q + 1 < Len(src) /\ src[q + 2] = "+" THEN q + 2
    ELSE q + 1

\* TOKEN_RE.match(self.src, self.point): white space is skipped, then group 1.
TOKEN_RE_match(src, point) ==
    With(RunEnd(src, point, {" "}), LAMBDA q :
        Match(q, TokenEnd(src, q), SubSeq(src, q + 1, TokenEnd(src, q))))

\* JSLexer.__init__(source, parser); of the parser the lexer only asks
\* can_accept_terminal('IdentifierName'), whose answer is `accepts`.
JSLexer(source, accepts) ==
    [src |-> source, last_point |-> 0, point |-> 0, _next_kind |-> NoToken,
     _next_match |-> Unset, parser |-> accepts]

\* The kind _match returns for the token of a match.
JSLexer_kind(lx, token) ==
    IF token = <<>> THEN NoToken
    ELSE IF token[1] = "1" THEN "NumericLiteral"
    ELSE IF token[1] = "x"
         THEN IF lx.parser THEN "IdentifierName" ELSE "Identifier"
    ELSE IF token = <<"+", "+">> THEN "++"
    ELSE "+"

\* JSLexer._match(): [lexer |-> the lexer afterwards, hit |-> what it returns].
JSLexer_match(lx) ==
    With(TOKEN_RE_match(lx.src, lx.point), LAMBDA match :
        [lexer |-> [lx EXCEPT !._next_match = match, !.point = match.start1],
         hit |-> JSLexer_kind(lx, match.group1)])

\* JSLexer.peek(): [lexer |-> the lexer afterwards, hit |-> what it returns].
JSLexer_peek(lx) ==
    IF lx._next_kind # NoToken THEN [lexer |-> lx, hit |-> lx._next_kind]
    ELSE With(JSLexer_match([lx EXCEPT !.last_point = lx.point]), LAMBDA m :
             [lexer |-> [m.lexer EXCEPT
                            !._next_kind = m.hit,
                            !.last_point = IF m.hit = NoToken THEN @
                                           ELSE m.lexer._next_match.end],
              hit |-> m.hit])

\* JSLexer.take(k): [e |-> the exception raised ("" for none), lexer |-> the
\* lexer afterwards, token |-> what it returns].  self._next_match is missing
\* before the first peek and None after a take: AttributeError in both cases.
JSLexer_take(lx, k) ==
    IF lx._next_match.k # "match"
    THEN [e |-> "AttributeError", lexer |-> lx, token |-> <<>>]
    ELSE [e |-> "",
          lexer |-> [lx EXCEPT !.point = lx._next_match.end,
                               !._next_kind = NoToken,
                               !._next_match = NoMatch],
          token |-> lx._next_match.group1]

---------------------------------------------------------------------------
(* The generated parser                                                    *)

\* A tree fragment on the stack: a token, or a tuple (tag_name, tag_index, args).
Leaf(text) == [tag |-> "", idx |-> -1, args |-> <<>>, text |-> text]
Node(tag, idx, args) == [tag |-> tag, idx |-> idx, args |-> args, text |-> ""]

\* exec(code): an `else:` right after `token = src.peek()`, with no `if`
\* before it, is a SyntaxError; every other text written is valid Python.
SyntaxOK(code) ==
    \A x \in 1..Len(code) : code[x].op = "else" => x > 1 /\ code[x - 1].op = "alt"

\* The if/elif chain of parse_<nt>: the first block of nt whose guard holds
\* for the token, 0 when none does.
matching_alt(code, nt, token) ==
    LET hits == {x \in 1..Len(code) :
                    code[x].op = "alt" /\ code[x].nt = nt /\ token \in code[x].guard}
    IN IF hits = {} THEN 0 ELSE CHOOSE x \in hits : \A y \in hits : x <= y

has_else(code, nt) == \E x \in 1..Len(code) : code[x].op = "else" /\ code[x].nt = nt

\* A call of parse_<nt>: `alt` is the block being run (0 before the dispatch),
\* `pos` the next action of its body, `h` the length of the stack at entry.
Frame(nt, alt, pos, h) == [nt |-> nt, alt |-> alt, pos |-> pos, h |-> h]

\* stack[-n:] (stack[-0:] is the whole list).
LastSlice(s, n) ==
    IF n = 0 \/ n >= Len(s) THEN s ELSE SubSeq(s, Len(s) - n + 1, Len(s))

DelLastSlice_one_more(s, n) ==
    IF n = 0 \/ n + 1 >= Len(s) THEN <<>> ELSE SubSeq(s, 1, Len(s) - n - 1)

\* del stack[-n:]
DelLastSlice(s, n) ==
    IF n = 0 \/ n >= Len(s) THEN <<>> ELSE SubSeq(s, 1, Len(s) - n)

Top == frames[Len(frames)]
Pop(s) == SubSeq(s, 1, Len(s) - 1)

---------------------------------------------------------------------------
(* Input grammars.                                                         *)

\* The shape of a list of productions: the lengths of its productions, at
\* most MaxProds of them and none above MaxLen.
Shapes == UNION {[1..n -> 0..MaxLen] : n \in 0..MaxProds}

\* The size of a list of productions: one for each production and one for
\* each of its symbols.
RECURSIVE ShapeSize(_)
ShapeSize(shape) ==
    IF shape = <<>> THEN 0 ELSE 1 + Head(shape) + ShapeSize(Tail(shape))

\* Every list of productions of a shape over an alphabet.
RECURSIVE ListsOfShape(_, _)
ListsOfShape(alphabet, shape) ==
    IF shape = <<>> THEN {<<>>}
    ELSE {<<prod>> \o rest : prod \in [1..Head(shape) -> alphabet],
                             rest \in ListsOfShape(alphabet, Tail(shape))}

GrammarOfA(la) == [keys |-> <<"a">>, prods |-> [n \in {"a"} |-> la]]
GrammarOfAB(la, lb) ==
    [keys |-> <<"a", "b">>, prods |-> [n \in {"a", "b"} |-> IF n = "a" THEN la ELSE lb]]

\* g is a grammar of size at most MaxSize with the one key a over alphabet1,
\* or one with the keys a and b (in this order) over alphabet2.
IsInputGrammar(g, alphabet1, alphabet2) ==
    \/ \E sa \in Shapes :
          /\ ShapeSize(sa) <= MaxSize
          /\ \E la \in ListsOfShape(alphabet1, sa) : g = GrammarOfA(la)
    \/ \E sa \in Shapes, sb \in Shapes :
          /\ ShapeSize(sa) + ShapeSize(sb) <= MaxSize
          /\ \E la \in ListsOfShape(alphabet2, sa), lb \in ListsOfShape(alphabet2, sb) :
                g = GrammarOfAB(la, lb)

\* The grammars check is applied to: nonterminals a and b, the undefined
\* nonterminal c, a terminal and a user-supplied reduction marker.
CheckAlphabet == {Str("a"), Str("b"), Str("c"), Str("X"), Reduction("a", 0, 1)}

\* The grammars the pipeline is applied to: nonterminals a and b and the
\* token kinds NUM and + of the Tokens class; with one nonterminal, also a
\* user-supplied reduction marker.
PipeAlphabet == {Str("a"), Str("b"), Str("NUM"), Str("+")}
MarkedAlphabet == {Str("a"), Str("NUM"), Str("+"), Reduction("a", 0, 1)}

\* The grammar of main().
ExprGrammar ==
    [keys |-> <<"expr", "term", "prim">>,
     prods |-> [n \in {"expr", "term", "prim"} |->
        CASE n = "expr" -> << <<Str("term")>>,
                              <<Str("expr"), Str("+"), Str("term")>>,
                              <<Str("expr"), Str("-"), Str("term")>> >>
          [] n = "term" -> << <<Str("prim")>>,
                              <<Str("term"), Str("*"), Str("prim")>>,
                              <<Str("term"), Str("/"), Str("prim")>> >>
          [] n = "prim" -> << <<Str("NUM")>>,
                              <<Str("VAR")>>,
                              <<Str("("), Str("expr"), Str(")")>> >>]]

\* The lines parsed: every line of at most MaxInput tokens and, for the
\* grammar of main(), some longer ones.
LineTexts == {"1", "+", "?"}
ShortLines == UNION {[1..n -> LineTexts] : n \in 0..MaxInput}
ExprLines ==
    {<<"1", "+", "2", "*", "1">>, <<"1", "-", "2", "-", "1">>,
     <<"(", "x", ")", "/", "2">>, <<"1", "*", "2", "+", "x">>}

\* The sources lexed: every source of at most MaxInput characters.
Sources == UNION {[1..n -> Chars] : n \in 0..MaxInput}

---------------------------------------------------------------------------
(* The calls.                                                              *)

NoGrammar == [keys |-> <<>>, prods |-> <<>>]

Idle == /\ ntnames = <<>>
        /\ follow = <<>>
        /\ subsumes_relation = {}
        /\ out = <<>>
        /\ line = <<>>
        /\ tokens = <<>>
        /\ stack = <<>>
        /\ frames = <<>>
        /\ log = <<>>
        /\ err = NoErr
        /\ pc = "start"

InitCheck == /\ IsInputGrammar(grammar, CheckAlphabet, CheckAlphabet)
             /\ goal = "a"
             /\ lexer = JSLexer(<<>>, FALSE)
             /\ Idle

\* check(grammar)
CallCheck ==
    /\ pc = "start"
    /\ err' = check(grammar)
    /\ pc' = IF err' = NoErr THEN "checked" ELSE "check raised"
    /\ UNCHANGED <<gen_vars, run_vars, lexer>>

NextCheck == CallCheck

SpecCheck == InitCheck /\ [][NextCheck]_vars

InitPipe == /\ IsInputGrammar(grammar, MarkedAlphabet, PipeAlphabet)
            /\ goal \in {"a", "b"}
            /\ lexer = JSLexer(<<>>, FALSE)
            /\ Idle

\* eliminate_left_recursion(grammar), on a grammar check has accepted.
CallEliminate ==
    /\ pc = "checked"
    /\ ntnames' = quasisort_nts(grammar)
    /\ grammar' = eliminate_left_recursion(grammar)
    /\ pc' = "eliminated"
    /\ UNCHANGED <<goal, err, follow, subsumes_relation, out, run_vars, lexer>>

\* follow_sets(grammar, goal)
CallFollowSets ==
    /\ pc \in {"start", "eliminated"}
    /\ \E f \in {follow_sets(grammar, goal)} :
          /\ follow' = IF f.e = "" THEN f.follow ELSE follow
          /\ err' = IF f.e = "" THEN NoErr ELSE Err(f.e, "", "")
          /\ pc' = IF f.e = "" THEN "followed" ELSE "follow_sets raised"
    /\ UNCHANGED <<grammar, goal, ntnames, subsumes_relation, out, run_vars, lexer>>

\* check_ambiguity(grammar, goal)
CallCheckAmbiguity ==
    /\ pc \in {"start", "eliminated"}
    /\ \E r \in {check_ambiguity(grammar, goal)} :
          /\ \E t \in r.toks : err' = Err(r.kind, r.nt, t)
          /\ pc' = IF r = NoConflict THEN "unambiguous" ELSE "check_ambiguity raised"
    /\ UNCHANGED <<gen_vars, run_vars, lexer>>

\* generate_parser(out, grammar, goal): the caller's grammar is left alone,
\* the function works on the dict it builds.
CallGenerateParser ==
    /\ pc = "start"
    /\ \E r \in {generate_parser(grammar, goal)} :
          /\ out' = r.out
          /\ \E t \in r.err.toks : err' = Err(r.err.kind, r.err.nt, t)
          /\ pc' = IF r.err = NoConflict THEN "generated" ELSE "generate_parser raised"
    /\ UNCHANGED <<grammar, goal, ntnames, follow, subsumes_relation, run_vars, lexer>>

NextPipe ==
    \/ CallCheck
    \/ CallEliminate
    \/ CallFollowSets
    \/ CallCheckAmbiguity
    \/ CallGenerateParser

SpecPipe == InitPipe /\ [][NextPipe]_vars

---------------------------------------------------------------------------
(* main(): generate the parser, exec it, parse lines.                      *)

InitMain ==
    /\ \/ IsInputGrammar(grammar, MarkedAlphabet, PipeAlphabet) /\ goal = "a"
       \/ grammar = ExprGrammar /\ goal = "expr"
    /\ lexer = JSLexer(<<>>, FALSE)
    /\ Idle

\* exec(code, ...): the generated text is run as Python
Load ==
    /\ pc = "generated"
    /\ pc' = IF SyntaxOK(out) THEN "loaded" ELSE "exec raised"
    /\ err' = IF SyntaxOK(out) THEN NoErr ELSE Err("SyntaxError", "", "")
    /\ UNCHANGED <<gen_vars, run_vars, lexer>>

\* line = input('> '); tokens = Tokens(line); parse(tokens): stack = [];
\* parse_<goal>(src, stack)
StartParse ==
    /\ pc = "loaded"
    /\ line' \in IF goal = "expr" THEN ExprLines \cup ShortLines ELSE ShortLines
    /\ tokens' = line'
    /\ stack' = <<>>
    /\ frames' = <<Frame(out[Len(out)].nt, 0, 0, 0)>>
    /\ log' = <<>>
    /\ pc' = "parsing"
    /\ UNCHANGED <<gen_vars, err, lexer>>

\* token = src.peek() and the if/elif/else chain of parse_<nt>
Dispatch ==
    /\ pc = "parsing" /\ frames # <<>> /\ Top.alt = 0
    /\ LET token == Tokens_peek(tokens)
           alt == matching_alt(out, Top.nt, token)
       IN IF token = "ValueError"
          THEN /\ pc' = "failed"
               /\ err' = Err("unexpected_token", "", Head(tokens))
               /\ log' = Append(log, Event("peek", token, FALSE, ""))
               /\ UNCHANGED frames
          ELSE /\ log' = Append(log, Event("peek", token, TRUE, ""))
               /\ IF alt # 0
                  THEN /\ frames' = [frames EXCEPT ![Len(frames)] = Frame(Top.nt, alt, 1, Top.h)]
                       /\ UNCHANGED <<pc, err>>
                  ELSE IF has_else(out, Top.nt)
                  THEN /\ pc' = "failed"
                       /\ err' = Err("expected", Top.nt, token)
                       /\ UNCHANGED frames
                  ELSE /\ frames' = Pop(frames)
                       /\ UNCHANGED <<pc, err>>
    /\ UNCHANGED <<gen_vars, line, tokens, stack, lexer>>

\* The next action of the block being run.
Action == out[Top.alt].body[Top.pos]
Running ==
    /\ pc = "parsing" /\ frames # <<>>
    /\ Top.alt # 0 /\ Top.pos <= Len(out[Top.alt].body)
Advance == [frames EXCEPT ![Len(frames)].pos = @ + 1]

\* stack.append(src.take(<terminal>))
Take ==
    /\ Running /\ is_terminal(Action)
    /\ LET r == Tokens_take(tokens, Action.n)
       IN /\ log' = Append(log, Event("take", Action.n, r.e = "", r.token))
          /\ tokens' = r.tokens
          /\ IF r.e = ""
             THEN /\ stack' = Append(stack, Leaf(r.token))
                  /\ frames' = Advance
                  /\ UNCHANGED <<pc, err>>
             ELSE /\ pc' = "failed"
                  /\ err' = Err(r.e, "", Action.n)
                  /\ UNCHANGED <<stack, frames>>
    /\ UNCHANGED <<gen_vars, line, lexer>>

\* parse_<nonterminal>(src, stack)
Call ==
    /\ Running /\ is_nt(Action)
    /\ frames' = Append(Advance, Frame(Action.n, 0, 0, Len(stack)))
    /\ UNCHANGED <<gen_vars, pc, err, line, tokens, stack, log, lexer>>

\* args = stack[-n:]; del stack[-n:]; stack.append((tag_name, tag_index, args))
Reduce ==
    /\ Running /\ is_reduction(Action)
    /\ stack' = Append(DelLastSlice(stack, Action.c),
                       Node(Action.n, Action.i, LastSlice(stack, Action.c)))
    /\ frames' = Advance
    /\ UNCHANGED <<gen_vars, pc, err, line, tokens, log, lexer>>

\* The end of the block: parse_<nt> returns.
Return ==
    /\ pc = "parsing" /\ frames # <<>>
    /\ Top.alt # 0 /\ Top.pos > Len(out[Top.alt].body)
    /\ frames' = Pop(frames)
    /\ UNCHANGED <<gen_vars, pc, err, line, tokens, stack, log, lexer>>

\* src.take(None); assert len(stack) == 1; return stack[0]
Finish ==
    /\ pc = "parsing" /\ frames = <<>>
    /\ LET r == Tokens_take(tokens, NoToken)
       IN /\ log' = Append(log, Event("take", NoToken, r.e = "", r.token))
          /\ err' = IF r.e # "" THEN Err(r.e, "", "")
                    ELSE IF Len(stack) # 1 THEN Err("AssertionError", "parse", "")
                    ELSE NoErr
          /\ pc' = IF err' = NoErr THEN "parsed" ELSE "failed"
    /\ UNCHANGED <<gen_vars, line, tokens, stack, frames, lexer>>

NextMain ==
    \/ CallGenerateParser
    \/ Load
    \/ StartParse
    \/ Dispatch
    \/ Take
    \/ Call
    \/ Reduce
    \/ Return
    \/ Finish

Spec == InitMain /\ [][NextMain]_vars

---------------------------------------------------------------------------
(* The token sources on their own: any calls of peek and take.             *)

\* Most calls made on one token source.
MaxCalls == 3

\* The kinds a caller may hand to take.
Kinds == {NoToken, "NUM", "+", "++", "NumericLiteral", "Identifier", "IdentifierName"}

\* tokens = Tokens(line), or lexer = JSLexer(source, parser)
InitTok ==
    /\ grammar = NoGrammar
    /\ goal = "a"
    /\ ntnames = <<>> /\ follow = <<>> /\ subsumes_relation = {} /\ out = <<>>
    /\ stack = <<>> /\ frames = <<>> /\ log = <<>>
    /\ err = NoErr
    /\ \/ /\ pc = "Tokens"
          /\ line \in ShortLines
          /\ tokens = line
          /\ lexer = JSLexer(<<>>, FALSE)
       \/ /\ pc = "JSLexer"
          /\ line = <<>>
          /\ tokens = <<>>
          /\ \E source \in Sources, accepts \in BOOLEAN : lexer = JSLexer(source, accepts)

\* tokens.peek()
CallTokensPeek ==
    /\ pc = "Tokens" /\ Len(log) < MaxCalls
    /\ log' = Append(log, Event("peek", Tokens_peek(tokens),
                                Tokens_peek(tokens) # "ValueError", ""))
    /\ UNCHANGED <<gen_vars, pc, err, line, tokens, stack, frames, lexer>>

\* tokens.take(k)
CallTokensTake ==
    /\ pc = "Tokens" /\ Len(log) < MaxCalls
    /\ \E k \in Kinds :
          LET r == Tokens_take(tokens, k)
          IN /\ log' = Append(log, Event("take", k, r.e = "", r.token))
             /\ tokens' = r.tokens
    /\ UNCHANGED <<gen_vars, pc, err, line, stack, frames, lexer>>

\* lexer.peek()
CallLexerPeek ==
    /\ pc = "JSLexer" /\ Len(log) < MaxCalls
    /\ LET r == JSLexer_peek(lexer)
       IN /\ log' = Append(log, Event("peek", r.hit, TRUE, <<>>))
          /\ lexer' = r.lexer
    /\ UNCHANGED <<gen_vars, pc, err, line, tokens, stack, frames>>

\* lexer.take(k)
CallLexerTake ==
    /\ pc = "JSLexer" /\ Len(log) < MaxCalls
    /\ \E k \in Kinds :
          LET r == JSLexer_take(lexer, k)
          IN /\ log' = Append(log, Event("take", k, r.e = "", r.token))
             /\ lexer' = r.lexer
    /\ UNCHANGED <<gen_vars, pc, err, line, tokens, stack, frames>>

NextTok ==
    \/ CallTokensPeek
    \/ CallTokensTake
    \/ CallLexerPeek
    \/ CallLexerTake

SpecTok == InitTok /\ [][NextTok]_vars

---------------------------------------------------------------------------
(* Claims about check.                                                     *)

\* Rule 1 is broken: a production contains a nonterminal that is not a key.
UsesUndefined(g) ==
    \E nt \in Keys(g) : \E p \in 1..Len(g.prods[nt]) :
        \E x \in 1..Len(g.prods[nt][p]) :
            is_nt(g.prods[nt][p][x]) /\ g.prods[nt][p][x].n \notin Keys(g)

\* Rule 3 is broken: a production holds nothing but reduction markers.
HasEmptyProduction(g) ==
    \E nt \in Keys(g) : \E p \in 1..Len(g.prods[nt]) :
        \A x \in 1..Len(g.prods[nt][p]) : is_reduction(g.prods[nt][p][x])

\* q ::= r is a production of the grammar once reduction markers are removed.
UnitStep(g, q, r) ==
    \E p \in 1..Len(g.prods[q]) :
        LET kept == {x \in 1..Len(g.prods[q][p]) : ~is_reduction(g.prods[q][p][x])}
        IN /\ Cardinality(kept) = 1
           /\ \A x \in kept : g.prods[q][p][x] = Str(r) /\ is_nt(Str(r))

\* The nonterminals reached from the set `from` in one or more unit steps.
RECURSIVE UnitReach(_, _, _)
UnitReach(g, from, seen) ==
    LET next == {r \in Keys(g) : \E q \in from : UnitStep(g, q, r)} \ seen
    IN IF next = {} THEN seen ELSE UnitReach(g, next, seen \cup next)

\* Rule 2 is broken for q: q ==>+ q through single-nonterminal productions.
OnUnitCycle(g, q) == q \in UnitReach(g, {q}, {})

\* C1: check(grammar) raises if and only if the grammar uses an undefined
\* nonterminal, has a production that is empty once its reduction markers are
\* removed, or has a nonterminal that reaches itself through productions of
\* exactly one nonterminal; the cycle error names a nonterminal that is on such
\* a cycle (so a diamond is no cycle), and a grammar whose only production for
\* a is [a] fails with the cycle error naming a.
C1_CheckRaisesIffRuleBroken ==
    pc \in {"checked", "check raised"} =>
        /\ (pc = "check raised") <=>
               \/ UsesUndefined(grammar)
               \/ HasEmptyProduction(grammar)
               \/ \E q \in Keys(grammar) : OnUnitCycle(grammar, q)
        /\ (pc = "checked") <=> (err = NoErr)
        /\ err.kind = "cycle" => OnUnitCycle(grammar, err.nt)
        /\ grammar.prods["a"] = <<<<Str("a")>>>> => err = Err("cycle", "a", "")

\* check has raised the cycle error for a cycle through two nonterminals.
C1_Witness_CycleReported ==
    /\ pc = "check raised"
    /\ err = Err("cycle", "a", "")
    /\ grammar.keys = <<"a", "b">>
    /\ UnitStep(grammar, "a", "b") /\ UnitStep(grammar, "b", "a")

---------------------------------------------------------------------------
(* Claims about eliminate_left_recursion.                                  *)

\* Some production of q has the nonterminal r as its first symbol.
FirstStep(g, q, r) ==
    \E p \in 1..Len(g.prods[q]) : Head1(g.prods[q][p]) = <<Str(r)>>

\* The nonterminals reached from the set `from` by following first symbols.
RECURSIVE FirstReach(_, _, _)
FirstReach(g, from, seen) ==
    LET next == {r \in Keys(g) : \E q \in from : FirstStep(g, q, r)} \ seen
    IN IF next = {} THEN seen ELSE FirstReach(g, next, seen \cup next)

\* C2: after eliminate_left_recursion on a grammar check accepts, no
\* production of a nonterminal (original or epilogue) starts with that
\* nonterminal, no production of ntnames[i] starts with ntnames[j] for j < i,
\* and no nonterminal reaches itself by following first symbols.
C2_NoLeftRecursionLeft ==
    pc = "eliminated" =>
        /\ \A nt \in Keys(grammar) : ~FirstStep(grammar, nt, nt)
        /\ \A i \in 1..Len(ntnames) : \A j \in 1..(i - 1) :
               ~FirstStep(grammar, ntnames[i], ntnames[j])
        /\ \A nt \in Keys(grammar) : nt \notin FirstReach(grammar, {nt}, {})

\* eliminate_left_recursion has rewritten b, processed after a, into a
\* nonterminal with an epilogue whose production begins with what was inlined
\* from a.
C2_Witness_InlinedAndSplit ==
    /\ pc = "eliminated"
    /\ ntnames = <<"a", "b">>
    /\ "b_" \in Keys(grammar)
    /\ \E p \in 1..Len(grammar.prods["b_"]) :
          Len(grammar.prods["b_"][p]) >= 3

---------------------------------------------------------------------------
(* Claims about the parser generated for the grammar of main().            *)

\* The tree fragment t is a derivation of the symbol sym under the grammar g:
\* a token of that kind, or a node tagged with a production of that
\* nonterminal whose children derive the production's symbols in order.
RECURSIVE Derives(_, _, _)
Derives(g, t, sym) ==
    IF is_terminal(sym) THEN t.tag = "" /\ TokenKind(t.text) = sym.n
    ELSE /\ t.tag = sym.n
         /\ t.idx + 1 \in 1..Len(g.prods[sym.n])
         /\ Len(t.args) = Len(g.prods[sym.n][t.idx + 1])
         /\ \A x \in 1..Len(t.args) :
               Derives(g, t.args[x], g.prods[sym.n][t.idx + 1][x])

\* The tokens at the leaves of a tree fragment, left to right.
RECURSIVE Yield(_)
RECURSIVE YieldAll(_)
Yield(t) == IF t.tag = "" THEN <<t.text>> ELSE YieldAll(t.args)
YieldAll(ts) == IF ts = <<>> THEN <<>> ELSE Yield(Head(ts)) \o YieldAll(Tail(ts))

\* The trees of NUM, of a term and of an expr that are a single number.
PrimOf(text) == Node("prim", 0, <<Leaf(text)>>)
TermOf(text) == Node("term", 0, <<PrimOf(text)>>)
ExprOf(text) == Node("expr", 0, <<TermOf(text)>>)

\* C3: generate_parser accepts the grammar of main(); on NUM + NUM * NUM the
\* generated parser takes every token and returns the tree of the original
\* grammar, (expr, 1) with three children, the third the (term, 1) node of
\* the multiplication; NUM - NUM - NUM nests to the left; and whatever line
\* it parses, the tree returned is a derivation of that line under the
\* original grammar.
C3_ExprTreeOfOriginalGrammar ==
    grammar = ExprGrammar =>
        /\ pc \notin {"generate_parser raised", "exec raised"}
        /\ line = <<"1", "+", "2", "*", "1">> /\ pc \in {"parsed", "failed"} =>
               /\ pc = "parsed" /\ tokens = <<>>
               /\ stack = <<Node("expr", 1,
                               <<ExprOf("1"), Leaf("+"),
                                 Node("term", 1, <<TermOf("2"), Leaf("*"), PrimOf("1")>>)>>)>>
        /\ line = <<"1", "-", "2", "-", "1">> /\ pc \in {"parsed", "failed"} =>
               /\ pc = "parsed" /\ tokens = <<>>
               /\ stack = <<Node("expr", 2,
                               <<Node("expr", 2, <<ExprOf("1"), Leaf("-"), TermOf("2")>>),
                                 Leaf("-"), TermOf("1")>>)>>
        /\ pc = "parsed" =>
               /\ Len(stack) = 1
               /\ Derives(ExprGrammar, stack[1], Str("expr"))
               /\ Yield(stack[1]) = line

\* The generated parser has parsed NUM + NUM * NUM.
C3_Witness_SumOfProductParsed ==
    /\ grammar = ExprGrammar
    /\ pc = "parsed"
    /\ line = <<"1", "+", "2", "*", "1">>

---------------------------------------------------------------------------
(* Claims about the token sources.                                         *)

\* The tokens a sequence of calls has taken: what the takes that returned
\* have returned, in order; `nothing` is what a take returns that takes no
\* token (None from a Tokens, the empty string from a JSLexer).
RECURSIVE Taken(_, _)
Taken(calls, nothing) ==
    IF calls = <<>> THEN <<>>
    ELSE IF Head(calls).op = "take" /\ Head(calls).ok /\ Head(calls).token # nothing
         THEN <<Head(calls).token>> \o Taken(Tail(calls), nothing)
    ELSE Taken(Tail(calls), nothing)

\* The tokens of a source from position point on, as TOKEN_RE cuts them.
RECURSIVE LexAll(_, _)
LexAll(src, point) ==
    LET match == TOKEN_RE_match(src, point)
    IN IF match.group1 = <<>> THEN <<>>
       ELSE <<match.group1>> \o LexAll(src, match.end)

IsPrefix(s, t) == Len(s) <= Len(t) /\ s = SubSeq(t, 1, Len(s))

\* C4: on both token sources a take(None) that returns has found the input
\* exhausted, and a take(kind) that returns was given the kind peek() would
\* have returned, has removed exactly the next token and has returned it.
C4_TakeContract ==
    /\ pc = "Tokens" =>
          /\ \A x \in 1..Len(log) :
                log[x].op = "take" /\ log[x].ok =>
                    IF log[x].kind = NoToken THEN tokens = <<>>
                    ELSE TokenKind(log[x].token) = log[x].kind
          /\ Taken(log, NoToken) \o tokens = line
    /\ pc = "JSLexer" =>
          /\ \A x \in 1..Len(log) :
                log[x].op = "take" /\ log[x].ok =>
                    JSLexer_kind(lexer, log[x].token) = log[x].kind
          /\ IsPrefix(Taken(log, <<>>), LexAll(lexer.src, 0))

\* The same contract, of the Tokens class alone.
C4_TokensTakeContract == pc = "Tokens" => C4_TakeContract

---------------------------------------------------------------------------
(* Claims about the calls the generated parser makes on its token source.  *)

\* Call number x is a take(kind) of a terminal that returned.
TookTerminal(calls, x) ==
    calls[x].op = "take" /\ calls[x].kind # NoToken /\ calls[x].ok

\* Call number y is a peek that returned the kind call number x takes, and
\* no take lies between them.
PeekedFor(calls, y, x) ==
    /\ y < x
    /\ calls[y].op = "peek" /\ calls[y].ok /\ calls[y].kind = calls[x].kind
    /\ \A z \in (y + 1)..(x - 1) : calls[z].op # "take"

\* C5: in every run of a generated parser every take(kind) of a terminal is
\* preceded, since the previous take or the start, by a peek() that returned
\* that kind, and the tokens taken are the tokens of the line in order, each
\* taken once and none read again.
C5_OneTokenLookahead ==
    pc \in {"parsing", "parsed", "failed"} =>
        /\ \A x \in 1..Len(log) :
              TookTerminal(log, x) => \E y \in 1..Len(log) : PeekedFor(log, y, x)
        /\ Taken(log, NoToken) \o tokens = line

\* The second half of C5 alone: the tokens taken are the tokens of the line
\* in order, each taken once and none read again.
C5_TokensTakenOnceInOrder ==
    pc \in {"parsing", "parsed", "failed"} => Taken(log, NoToken) \o tokens = line

---------------------------------------------------------------------------
(* Claims about check_ambiguity.                                           *)

\* The nonterminals that can match the empty string: the least set N such
\* that a nonterminal with a production of reductions and members of N is in N.
RECURSIVE NullableFrom(_, _)
NullableFrom(g, N) ==
    LET more == {nt \in Keys(g) \ N :
                    \E p \in 1..Len(g.prods[nt]) :
                        \A x \in 1..Len(g.prods[nt][p]) :
                            \/ is_reduction(g.prods[nt][p][x])
                            \/ is_nt(g.prods[nt][p][x]) /\ g.prods[nt][p][x].n \in N}
    IN IF more = {} THEN N ELSE NullableFrom(g, N \cup more)
Nullable(g) == NullableFrom(g, {})

\* A match of q can begin with a match of r: a production of q holds r after
\* nothing but reductions and nullable nonterminals.
LeftStep(g, q, r) ==
    \E p \in 1..Len(g.prods[q]) : \E x \in 1..Len(g.prods[q][p]) :
        /\ g.prods[q][p][x] = Str(r) /\ is_nt(Str(r))
        /\ \A y \in 1..(x - 1) :
              \/ is_reduction(g.prods[q][p][y])
              \/ is_nt(g.prods[q][p][y]) /\ g.prods[q][p][y].n \in Nullable(g)

RECURSIVE LeftReach(_, _, _)
LeftReach(g, from, seen) ==
    LET next == {r \in Keys(g) : \E q \in from : LeftStep(g, q, r)} \ seen
    IN IF next = {} THEN seen ELSE LeftReach(g, next, seen \cup next)

LeftRecursionFree(g) == \A nt \in Keys(g) : nt \notin LeftReach(g, {nt}, {})

\* FIRST of a production, EMPTY counted as a member: what seq_start returns
\* (nothing when it returns nothing).
FirstOf(g, prod) == seq_start(g, prod).s

\* FIRST of a nonterminal: the union over its productions.
FirstOfNt(g, nt) == UNION {FirstOf(g, g.prods[nt][p]) : p \in 1..Len(g.prods[nt])}

\* FOLLOW of a nonterminal: what follow_sets returns for it.
FollowOf(g, goal_nt, nt) == follow_sets(g, goal_nt).follow[nt]

\* (a) two productions of nt have FIRST sets with the common member t.
FirstFirst(g, nt, t) ==
    \E p \in 1..Len(g.prods[nt]) : \E q \in (p + 1)..Len(g.prods[nt]) :
        t \in FirstOf(g, g.prods[nt][p]) \cap FirstOf(g, g.prods[nt][q])

\* (b) the nullable nt has the member t common to its FIRST and FOLLOW sets.
FirstFollow(g, goal_nt, nt, t) ==
    /\ EMPTY \in FirstOfNt(g, nt)
    /\ t \in FirstOfNt(g, nt) \cap FollowOf(g, goal_nt, nt)

\* C6: on a left-recursion-free grammar with a goal, check_ambiguity raises
\* if and only if (a) two productions of a nonterminal have FIRST sets with a
\* common member or (b) a nullable nonterminal has a member common to its
\* FIRST and FOLLOW sets; in case (a) the error is 'ambiguous grammar' when
\* the productions found in conflict share only EMPTY, else 'unsupported
\* grammar' naming the nonterminal and a terminal the productions share; the
\* productions [NUM] and [NUM, +] of a are rejected.
C6_RaisesIffConflict ==
    /\ pc \in {"unambiguous", "check_ambiguity raised"}
    /\ goal \in Keys(grammar)
    /\ ~UsesUndefined(grammar)
    /\ LeftRecursionFree(grammar)
    => /\ (pc = "check_ambiguity raised") <=>
              \/ \E nt \in Keys(grammar) : \E t \in {EMPTY, "NUM", "+"} :
                    FirstFirst(grammar, nt, t)
              \/ \E nt \in Keys(grammar) : \E t \in {"NUM", "+", END} :
                    FirstFollow(grammar, goal, nt, t)
       /\ err.kind = "ambiguous" => FirstFirst(grammar, err.nt, EMPTY)
       /\ err.kind = "unsupported_first" =>
              err.tok # EMPTY /\ FirstFirst(grammar, err.nt, err.tok)
       /\ err.kind = "unsupported_follow" =>
              FirstFollow(grammar, goal, err.nt, err.tok)
       /\ err.kind \in {"none", "ambiguous", "unsupported_first", "unsupported_follow"}
       /\ grammar.prods["a"] = <<<<Str("NUM")>>, <<Str("NUM"), Str("+")>>>> =>
              err = Err("unsupported_first", "a", "NUM")

\* C6, for the grammars on which no FIRST set is the union of no sets: every
\* nonterminal has a production.
C6_RaisesIffConflict_NoBareNonterminal ==
    (\A nt \in Keys(grammar) : grammar.prods[nt] # <<>>) => C6_RaisesIffConflict

---------------------------------------------------------------------------
(* Claims about follow_sets.                                               *)

\* A occurs in a production of B with everything after it able to match the
\* empty string (reductions and nullable nonterminals only).
EndsProductionOf(g, A, B) ==
    \E p \in 1..Len(g.prods[B]) : \E x \in 1..Len(g.prods[B][p]) :
        /\ g.prods[B][p][x] = Str(A) /\ is_nt(Str(A))
        /\ \A y \in (x + 1)..Len(g.prods[B][p]) :
              \/ is_reduction(g.prods[B][p][y])
              \/ is_nt(g.prods[B][p][y]) /\ g.prods[B][p][y].n \in Nullable(g)

\* The nonterminals linked to the members of `to` by a chain of such pairs.
RECURSIVE LinkedTo(_, _, _)
LinkedTo(g, to, seen) ==
    LET next == {A \in Keys(g) : \E B \in to : EndsProductionOf(g, A, B)} \ seen
    IN IF next = {} THEN seen ELSE LinkedTo(g, next, seen \cup next)

\* C7: the mapping follow_sets(grammar, goal) returns has END in
\* follow[goal], and END in follow[A] for another nonterminal A only if A is
\* linked to goal by a chain of subsumes pairs: A ends a production of some B
\* (all that comes after it can match empty) that is goal or so linked.
C7_EndOnlyThroughSubsumes ==
    pc = "followed" =>
        /\ END \in follow[goal]
        /\ \A A \in LowerInitial \ {goal} :
              END \in follow[A] => A \in LinkedTo(grammar, {goal}, {})

\* follow_sets has handed END down a chain of two subsumes pairs.
C7_Witness_EndHandedDown ==
    /\ pc = "followed"
    /\ goal = "a"
    /\ END \in follow["b"] /\ END \in follow["b_"]
    /\ ~EndsProductionOf(grammar, "b_", "a")

---------------------------------------------------------------------------
(* Claims about the errors of the generated parser.                        *)

\* The grammar the procedures are written from.
Compiled == eliminate_left_recursion(augment(grammar))

\* No alternative of nt can match the empty string: parse_<nt> has no empty
\* fallback.
NoEmptyFallback(nt) ==
    \A p \in 1..Len(Compiled.prods[nt]) : EMPTY \notin FirstOf(Compiled, Compiled.prods[nt][p])

\* The token kind is in the guard set of no alternative of nt.
InNoGuard(nt, kind) == kind \notin FirstOfNt(Compiled, nt) \ {EMPTY}

\* C8: parsing the empty input with a generated parser whose goal has no
\* empty-matching alternative ends with 'expected <goal>, got None', raised
\* by parse_<goal> after its peek and before any take; it does not end with
\* an assertion failure or another crash.
C8_EmptyInputEndsWithExpected ==
    LET ended == \/ pc = "exec raised"
                 \/ pc \in {"failed", "parsed"} /\ line = <<>>
    IN (ended /\ NoEmptyFallback(goal)) =>
           /\ pc = "failed"
           /\ err = Err("expected", goal, NoToken)
           /\ log = <<Event("peek", NoToken, TRUE, "")>>

\* The same of the generated parsers that exec loads.
C8_EmptyInputEndsWithExpected_WhenLoaded ==
    (pc \in {"failed", "parsed"} /\ line = <<>> /\ NoEmptyFallback(goal)) =>
        /\ pc = "failed"
        /\ err = Err("expected", goal, NoToken)
        /\ log = <<Event("peek", NoToken, TRUE, "")>>

\* Of the generated parsers that exec loads: when parse_<nt> has no empty
\* fallback and peek() returns a kind (None included) that is in none of its
\* guard sets, it raises 'expected <nt>, got <token>' and takes no token.
C8_DispatchRaisesExpected ==
    [][(/\ pc = "parsing" /\ frames # <<>> /\ Top.alt = 0
        /\ log' # log /\ log'[Len(log')].ok
        /\ InNoGuard(Top.nt, log'[Len(log')].kind)
        /\ NoEmptyFallback(Top.nt))
       => /\ pc' = "failed"
          /\ err' = Err("expected", Top.nt, log'[Len(log')].kind)
          /\ log'[Len(log')].op = "peek"
          /\ tokens' = tokens /\ stack' = stack]_vars

\* A procedure other than the goal's has raised the error, on a token.
C8_Witness_InnerProcedureRaised ==
    /\ pc = "failed" /\ err.kind = "expected"
    /\ err.nt # goal /\ err.tok # NoToken
    /\ Len(log) > 1

---------------------------------------------------------------------------
(* Claims about generate_parser as a whole.                                *)

\* C9: if generate_parser raises, nothing has been written to out; the
\* errors of the emission loop (the 'ambiguous token(s)' error and the
\* assertion that at most one alternative is the empty fallback) are never
\* raised, because check and check_ambiguity have raised before.
C9_AllOrNothing ==
    pc = "generate_parser raised" =>
        /\ out = <<>>
        /\ err.kind \notin {"ambiguous_tokens", "AssertionError"}

\* generate_parser has raised after eliminating a left recursion: two
\* alternatives of the epilogue start with the same token.
C9_Witness_RaisedAfterElimination ==
    /\ pc = "generate_parser raised"
    /\ err.kind = "unsupported_first" /\ err.nt = "a_"
    /\ out = <<>>

---------------------------------------------------------------------------
(* Claims about the fragment stack of the generated parser.                *)

\* The grammar handed to generate_parser has no Reduction of the user's.
NoUserReductions ==
    \A nt \in Keys(grammar) : \A p \in 1..Len(grammar.prods[nt]) :
        \A x \in 1..Len(grammar.prods[nt][p]) : ~is_reduction(grammar.prods[nt][p][x])

\* The nonterminals of the grammar as the user wrote it; the others are the
\* epilogues eliminate_immediate_left_recursion has made.
IsOriginal(nt) == nt \in Keys(grammar)

\* The length of the stack when the innermost running procedure of an
\* original nonterminal was entered.
EnclosingEntry ==
    LET originals == {x \in 1..Len(frames) : IsOriginal(frames[x].nt)}
    IN frames[CHOOSE x \in originals : \A y \in originals : y <= x].h

\* C10: for a grammar without reductions of the user's, the procedure of an
\* original nonterminal returns with the stack one element longer than at its
\* entry, the procedure of an epilogue returns with the stack as long as at
\* its entry, no reduction pops below the height at entry of the enclosing
\* original nonterminal, and the entry procedure's assertion that one
\* fragment remains never fails.
C10_StackDiscipline ==
    NoUserReductions =>
        /\ ENABLED Return =>
              Len(stack) = Top.h + (IF IsOriginal(Top.nt) THEN 1 ELSE 0)
        /\ (pc = "parsing" /\ frames # <<>> /\ Top.alt = 0) => Len(stack) = Top.h
        /\ (Running /\ is_reduction(Action)) =>
              /\ Action.c >= 1
              /\ Len(stack) - Action.c >= EnclosingEntry
        /\ err # Err("AssertionError", "parse", "")

\* A parse has ended with one fragment after an epilogue's reduction has
\* popped the left operand pushed by the enclosing procedure.
C10_Witness_LeftOperandReduced ==
    /\ NoUserReductions /\ goal = "a"
    /\ pc = "parsed" /\ Len(stack) = 1
    /\ \E x \in 1..Len(out) : out[x].op = "alt" /\ ~IsOriginal(out[x].nt)
    /\ Len(stack[1].args) >= 2 /\ stack[1].args[1].tag # ""

---------------------------------------------------------------------------
(* Claims about quasisort_nts.                                             *)

\* The place of a nonterminal in an order (0 when it is not there).
PlaceIn(order, nt) ==
    IF nt \in Range(order) THEN CHOOSE x \in 1..Len(order) : order[x] = nt ELSE 0

\* The order holds every nonterminal of g exactly once, and A comes before B
\* whenever A left-calls another nonterminal B that does not reach A by
\* first symbols.
IsQuasisorted(g, order) ==
    /\ Range(order) = Keys(g)
    /\ Len(order) = Cardinality(Keys(g))
    /\ \A A \in Keys(g) : \A B \in Keys(g) \ {A} :
          (FirstStep(g, A, B) /\ A \notin FirstReach(g, {B}, {}))
              => PlaceIn(order, A) < PlaceIn(order, B)

\* C11: on a grammar check accepts, the processing order quasisort_nts
\* computes holds every nonterminal of the grammar exactly once, and a
\* nonterminal A that has a production whose first symbol is another
\* nonterminal B comes before B unless B reaches A by first symbols.
C11_LeftCallersFirst ==
    [][(pc = "checked" /\ pc' = "eliminated") => IsQuasisorted(grammar, ntnames')]_vars

\* The order has put a before b because a left-calls b; left to itself the
\* order is the reverse of the dict's.
C11_Witness_CallerPlacedFirst ==
    /\ pc = "eliminated"
    /\ ntnames = <<"a", "b">>
    /\ FirstStep(grammar, "a", "b")

---------------------------------------------------------------------------
(* follow_sets(grammar, goal) step by step: visit(goal), then the passes of *)
(* the loop `while not done`.                                              *)

\* visit(goal) on the fresh visited, follow and subsumes_relation.
follow_visit_goal(g, goal_nt) ==
    follow_visit(g, goal_nt,
        [visited |-> {}, subsumes |-> {}, e |-> "",
         follow |-> [EmptyFollow EXCEPT ![goal_nt] = {END}]])

\* follow[goal].add(END); visit(goal); done = False
VisitGoal ==
    /\ pc \in {"start", "eliminated"}
    /\ \E st \in {follow_visit_goal(grammar, goal)} :
          /\ follow' = IF st.e = "" THEN st.follow ELSE follow
          /\ subsumes_relation' = IF st.e = "" THEN st.subsumes ELSE subsumes_relation
          /\ err' = IF st.e = "" THEN NoErr ELSE Err(st.e, "", "")
          /\ pc' = IF st.e = "" THEN "not done" ELSE "follow_sets raised"
    /\ UNCHANGED <<grammar, goal, ntnames, out, run_vars, lexer>>

\* One turn of `while not done`: done = True, the loop over
\* subsumes_relation, and `return follow` when done is still True.
FixedPointPass ==
    /\ pc = "not done"
    /\ \E r \in {subsumes_pass(SetToSeq(subsumes_relation), 1,
                               [follow |-> follow, done |-> TRUE])} :
          /\ follow' = r.follow
          /\ pc' = IF r.done THEN "followed" ELSE "not done"
    /\ UNCHANGED <<grammar, goal, err, ntnames, subsumes_relation, out, run_vars, lexer>>

NextFollow ==
    \/ CallCheck
    \/ CallEliminate
    \/ VisitGoal
    \/ FixedPointPass

\* The loop is sequential code: a turn that can be taken is taken.
SpecFollow == InitPipe /\ [][NextFollow]_vars /\ WF_vars(FixedPointPass)

---------------------------------------------------------------------------
(* Claims about the fixed point of follow_sets.                            *)

\* For every pair of the subsumes relation, stated on the grammar: X occurs
\* in a production of Y and all that comes after it can match empty.
FollowSubsumed(g, fol) ==
    \A X \in Keys(g) : \A Y \in Keys(g) :
        EndsProductionOf(g, X, Y) => fol[Y] \subseteq fol[X]

=============================================================================
